---- MODULE Spec2Model ----
(***************************************************************************)
(* Model of the video pipeline of dear-Naia: the client upload flow        *)
(* (App.tsx handleUpload, supabaseService.ts), the process-video edge      *)
(* function with its AssemblyAI poll loop, the realtime change feed and    *)
(* the client's in-memory video list.                                      *)
(*                                                                         *)
(* Values.  A URL is a sequence of tokens; the empty sequence is a missing *)
(* or empty URL.  Null stands for JavaScript null/undefined in string      *)
(* fields, EmptyText for the empty string (falsy in JavaScript).           *)
(***************************************************************************)
EXTENDS Integers, Sequences, FiniteSets, TLC

Null == "null"
EmptyText == ""
Marker == "/storage/v1/object/public/"
NoUrl == <<>>

\* Inputs of the model.
ExistingIds == {"v0"}
FreshIds == {"v1"}
VideoIds == ExistingIds \cup FreshIds
Texts == {"hello", "a greeting"}

maxAttempts == 60

\* Bounds of the model.
MaxExternalRequests == 1
MaxDeliveries == 2

VARIABLES
  rows,          \* videos table: id -> [present, url, transcription]
  apiKey,        \* ASSEMBLYAI_API_KEY is set
  job,           \* the running invocation of the edge function (its locals)
  hist,          \* what the invocation has done so far (requests issued, writes)
  external,      \* number of requests other callers have sent to the edge function
  feed,          \* change notifications the realtime channel has to deliver
  delivered,     \* notification -> number of times the client's handler ran for it
  videos,        \* App state: the in-memory list of VideoEntry
  selectedVideo, \* App state: the selected VideoEntry, or NoVideo
  ui,            \* App state: isProcessing, showUploadModal, pendingFile, isLoading, alert
  load,          \* the loadData effect: its position and the fetched list
  up,            \* the running handleUpload call (its locals)
  uphist,        \* what the upload flows have done so far
  triggers,      \* POST requests of triggerVideoProcessing on their way
  media,         \* an event media modal: its state and its running upload loop
  naias,         \* the NaiasView feed: video elements, scroll position, React state
  frame,         \* one call of extractFrameFromVideo: its element, object URL, timer, promise
  comp,          \* one call of compressVideo: its inputs, recorder and promise
  carousel       \* the carousel of the event media modal: index, scroll position, flag, timers

jobVars == <<job, hist, external>>
serverVars == <<rows, apiKey, feed>>
clientVars == <<delivered, videos, selectedVideo, ui, load, up, uphist, triggers>>
componentVars == <<media, naias, frame, comp, carousel>>
vars == <<rows, apiKey, job, hist, external, feed, delivered, videos, selectedVideo, ui, load,
          up, uphist, triggers, componentVars>>

pipelineVars ==
  <<rows, apiKey, job, hist, external, feed, delivered, videos, selectedVideo, ui, load, up,
    uphist, triggers>>

\* what the actions of one component leave alone
exceptMedia == <<pipelineVars, naias, frame, comp, carousel>>
exceptFeed == <<pipelineVars, media, frame, comp, carousel>>
exceptFrame == <<pipelineVars, media, naias, comp, carousel>>
exceptComp == <<pipelineVars, media, naias, frame, carousel>>
exceptCarousel == <<pipelineVars, media, naias, frame, comp>>

----------------------------------------------------------------------------
\* URLs

\* supabase.storage.from('videos').getPublicUrl(`videos/${id}.${ext}`)
PublicUrl(id) == <<"https://project.supabase.co", Marker, "videos", "videos", id>>
\* a URL that is not under the storage public prefix
ForeignUrl(id) == <<"https://cdn.example.com", id>>
SignedUrl(bucket, filePath) == <<"signed", bucket>> \o filePath

MarkerPos(url) ==
  IF \E i \in 1..Len(url) : url[i] = Marker
  THEN CHOOSE i \in 1..Len(url) : url[i] = Marker /\ \A j \in 1..(i-1) : url[j] # Marker
  ELSE 0

\* videoUrl.split('/storage/v1/object/public/')
UrlParts(url) ==
  IF MarkerPos(url) = 0 THEN <<url>>
  ELSE <<SubSeq(url, 1, MarkerPos(url) - 1), SubSeq(url, MarkerPos(url) + 1, Len(url))>>

\* bucket = pathParts[0], filePath = pathParts.slice(1).join('/')
SignTarget(url) ==
  [bucket |-> IF Len(UrlParts(url)[2]) > 0 THEN UrlParts(url)[2][1] ELSE Null,
   filePath |-> IF Len(UrlParts(url)[2]) > 0 THEN Tail(UrlParts(url)[2]) ELSE <<>>]

NoTarget == [bucket |-> Null, filePath |-> <<>>]

----------------------------------------------------------------------------
\* The videos table

NoRow == [present |-> FALSE, url |-> NoUrl, transcription |-> Null]
Row(url, transcription) == [present |-> TRUE, url |-> url, transcription |-> transcription]

\* supabase.from('videos').update({transcription}).eq('id', videoId)
UpdateTranscription(table, videoId, text) ==
  IF videoId \in DOMAIN table /\ table[videoId].present
  THEN [table EXCEPT ![videoId].transcription = text]
  ELSE table

\* the UPDATE event of the realtime channel, filter transcription=not.is.null
ChangeEvents(table, videoId) ==
  IF videoId \in DOMAIN table /\ table[videoId].present /\ table[videoId].transcription # Null
  THEN {[id |-> videoId, transcription |-> table[videoId].transcription]}
  ELSE {}

----------------------------------------------------------------------------
\* The edge function: Deno.serve handler and transcribeVideo

IdleJob ==
  [pc |-> "idle", videoId |-> Null, videoUrl |-> NoUrl, finalVideoUrl |-> NoUrl,
   attempts |-> 0, transcription |-> Null, status |-> 0, log |-> "none"]

NoHist ==
  [verify |-> <<>>, head |-> 0, get |-> 0, sign |-> 0, signTarget |-> NoTarget, submit |-> 0,
   submitted |-> NoUrl, polls |-> 0, writes |-> 0, nonTerminalOnly |-> TRUE,
   completedAt |-> 0, completedText |-> Null]

Finish(j, status, log) == [j EXCEPT !.pc = "done", !.status = status, !.log = log]

\* const { videoId, videoUrl } = await req.json(); if (!videoId || !videoUrl) -> 400
ValidRequest(videoId, videoUrl) == videoId # Null /\ videoUrl # NoUrl

Receive(videoId, videoUrl) ==
  /\ job.pc = "idle"
  /\ job' = IF ValidRequest(videoId, videoUrl)
            THEN [job EXCEPT !.pc = "head", !.videoId = videoId, !.videoUrl = videoUrl,
                             !.finalVideoUrl = videoUrl]
            ELSE Finish([job EXCEPT !.videoId = videoId, !.videoUrl = videoUrl], 400, "BadRequest")
  /\ hist' = NoHist

FetchOutcomes == {"ok", "notOk", "throws"}

\* let videoResponse = await fetch(videoUrl, { method: 'HEAD' })
FetchHead(outcome) ==
  /\ job.pc = "head"
  /\ hist' = [hist EXCEPT !.head = @ + 1, !.verify = Append(@, <<"HEAD", outcome>>)]
  /\ job' = CASE outcome = "throws" -> Finish(job, 500, "HandlerException")
              [] outcome = "ok" -> [job EXCEPT !.pc = "transcribe"]
              [] OTHER -> [job EXCEPT !.pc = "get"]
  /\ UNCHANGED <<external, serverVars, clientVars, componentVars>>

\* the next step after both public fetches failed: a signed URL when the URL
\* splits at the storage marker, else straight on with the public URL
AfterPublicFailed(url) == IF Len(UrlParts(url)) > 1 THEN "sign" ELSE "transcribe"

\* if (!videoResponse.ok) videoResponse = await fetch(videoUrl)
FetchGet(outcome) ==
  /\ job.pc = "get"
  /\ hist' = [hist EXCEPT !.get = @ + 1, !.verify = Append(@, <<"GET", outcome>>)]
  /\ job' = CASE outcome = "throws" -> Finish(job, 500, "HandlerException")
              [] outcome = "ok" -> [job EXCEPT !.pc = "transcribe"]
              [] OTHER -> [job EXCEPT !.pc = AfterPublicFailed(job.videoUrl)]
  /\ UNCHANGED <<external, serverVars, clientVars, componentVars>>

\* supabase.storage.from(bucket).createSignedUrl(filePath, 3600)
Sign(signed) ==
  /\ job.pc = "sign"
  /\ hist' = [hist EXCEPT !.sign = @ + 1, !.signTarget = SignTarget(job.videoUrl),
                          !.verify = Append(@, <<"SIGN", IF signed THEN "ok" ELSE "notOk">>)]
  /\ job' = IF signed
            THEN [job EXCEPT !.pc = "transcribe",
                    !.finalVideoUrl = SignedUrl(SignTarget(job.videoUrl).bucket,
                                                SignTarget(job.videoUrl).filePath)]
            ELSE Finish(job, 500, "AssetUnreachable")
  /\ UNCHANGED <<external, serverVars, clientVars, componentVars>>

\* transcribeVideo without the credential check
HasCredentialUnchecked(key) == TRUE

\* if (!ASSEMBLYAI_API_KEY)
HasCredential(key) == key

\* transcribeVideo: without the credential return null at once
CheckCredential ==
  /\ job.pc = "transcribe"
  /\ job' = IF HasCredential(apiKey) THEN [job EXCEPT !.pc = "submit"]
            ELSE [job EXCEPT !.pc = "respond", !.transcription = Null, !.log = "MissingCredential"]
  /\ UNCHANGED <<hist, external, serverVars, clientVars, componentVars>>

SubmitOutcomes == {"id", "noId", "notOk", "throws"}

\* POST {audio_url, language_code} to the provider
Submit(outcome) ==
  /\ job.pc = "submit"
  /\ hist' = [hist EXCEPT !.submit = @ + 1, !.submitted = job.finalVideoUrl]
  /\ job' = CASE outcome = "id" -> [job EXCEPT !.pc = "poll", !.attempts = 0]
              [] outcome = "noId" -> [job EXCEPT !.pc = "respond", !.log = "NoTranscriptId"]
              [] outcome = "notOk" -> [job EXCEPT !.pc = "respond", !.log = "SubmitFailed"]
              [] OTHER -> [job EXCEPT !.pc = "respond", !.log = "TranscriptionException"]
  /\ UNCHANGED <<external, serverVars, clientVars, componentVars>>

\* What the provider can answer to a status request.
Answer(kind, status, text) == [kind |-> kind, status |-> status, text |-> text]
Answers ==
  {Answer("throws", Null, Null), Answer("notOk", Null, Null)}
  \cup {Answer("json", s, Null) : s \in {"queued", "processing", "error"}}
  \cup {Answer("json", "completed", t) : t \in Texts \cup {EmptyText, Null}}

Truthy(text) == text # Null /\ text # EmptyText

\* the loop without the return on a completed answer
PollVerdictNoReturn(a) ==
  CASE a.kind = "throws" -> "throw"
    [] a.kind = "notOk" -> "continue"
    [] a.status = "error" -> "fail"
    [] OTHER -> "continue"

\* The body of one loop iteration after the status request: what the loop does
\* with the answer.
PollVerdict(a) ==
  CASE a.kind = "throws" -> "throw"
    [] a.kind = "notOk" -> "continue"
    [] a.status = "completed" /\ Truthy(a.text) -> "return"
    [] a.status = "completed" -> "continue"
    [] a.status = "error" -> "fail"
    [] OTHER -> "continue"

\* the loop condition off by one: attempts <= maxAttempts
LoopGuardOffByOne(attempts) == attempts <= maxAttempts

LoopGuard(attempts) == attempts < maxAttempts

\* while (attempts < maxAttempts) { wait 5 s; attempts++; fetch status; ... }
PollStep(a) ==
  /\ job.pc = "poll"
  /\ LoopGuard(job.attempts)
  /\ hist' = [hist EXCEPT
       !.polls = @ + 1,
       !.nonTerminalOnly = @ /\ a.kind # "throws" /\ a.status # "error"
                             /\ ~(a.status = "completed" /\ Truthy(a.text)),
       !.completedAt = IF @ = 0 /\ a.status = "completed" /\ Truthy(a.text)
                       THEN hist.polls + 1 ELSE @,
       !.completedText = IF hist.completedAt = 0 /\ a.status = "completed" /\ Truthy(a.text)
                         THEN a.text ELSE @]
  /\ job' = CASE PollVerdict(a) = "return" ->
                   [job EXCEPT !.pc = "respond", !.attempts = @ + 1, !.transcription = a.text,
                               !.log = "Completed"]
              [] PollVerdict(a) = "fail" ->
                   [job EXCEPT !.pc = "respond", !.attempts = @ + 1, !.log = "ProviderError"]
              [] PollVerdict(a) = "throw" ->
                   [job EXCEPT !.pc = "respond", !.attempts = @ + 1, !.log = "TranscriptionException"]
              [] OTHER -> [job EXCEPT !.attempts = @ + 1]
  /\ UNCHANGED <<external, serverVars, clientVars, componentVars>>

\* the loop ends without a result: 'Transcription timed out after 5 minutes'
PollTimeout ==
  /\ job.pc = "poll"
  /\ ~LoopGuard(job.attempts)
  /\ job' = [job EXCEPT !.pc = "respond", !.transcription = Null, !.log = "PollTimeout"]
  /\ UNCHANGED <<hist, external, serverVars, clientVars, componentVars>>

\* the row update made whatever transcribeVideo returned
ShouldWriteAlways(j) == TRUE

\* if (transcription) update the row, else answer 200 with a warning
ShouldWrite(j) == Truthy(j.transcription)

Respond(updateOk) ==
  /\ job.pc = "respond"
  /\ IF ShouldWrite(job)
     THEN /\ hist' = [hist EXCEPT !.writes = @ + 1]
          /\ IF updateOk
             THEN /\ rows' = UpdateTranscription(rows, job.videoId, job.transcription)
                  /\ feed' = feed \cup ChangeEvents(rows', job.videoId)
                  /\ job' = Finish(job, 200, job.log)
             ELSE /\ job' = Finish(job, 500, "UpdateFailed")
                  /\ UNCHANGED <<rows, feed>>
     ELSE /\ updateOk
          /\ job' = Finish(job, 200, job.log)
          /\ UNCHANGED <<hist, rows, feed>>
  /\ UNCHANGED <<apiKey, external, clientVars, componentVars>>

\* the handler has answered; the runtime is free for the next request
JobReturn ==
  /\ job.pc = "done"
  /\ job' = IdleJob
  /\ UNCHANGED <<hist, external, serverVars, clientVars, componentVars>>

\* a POST to the function from any other caller
RequestUrls(videoId) == {NoUrl, PublicUrl(videoId), ForeignUrl(videoId)}

ExternalRequest(videoId, videoUrl) ==
  /\ external < MaxExternalRequests
  /\ external' = external + 1
  /\ Receive(videoId, videoUrl)
  /\ UNCHANGED <<serverVars, clientVars, componentVars>>

----------------------------------------------------------------------------
\* The client: rows and entries

NoVideo == [id |-> Null, url |-> NoUrl, transcription |-> Null]
Entry(id, url, transcription) == [id |-> id, url |-> url, transcription |-> transcription]

\* rowToVideoEntry: transcription: row.transcription || undefined
rowToVideoEntry(id, row) ==
  Entry(id, row.url, IF Truthy(row.transcription) THEN row.transcription ELSE Null)

\* videoEntryToRow with the url field left out of the row
videoEntryToRowNoUrl(video) ==
  Row(NoUrl, IF Truthy(video.transcription) THEN video.transcription ELSE Null)

\* videoEntryToRow: transcription: video.transcription || null
videoEntryToRow(video) ==
  Row(video.url, IF Truthy(video.transcription) THEN video.transcription ELSE Null)

\* timestamp: Date.now() of the upload; existing rows are older than new ones
Timestamp(id) == CASE id = "v0" -> 1 [] id = "v1" -> 2 [] id = "v2" -> 3 [] OTHER -> 0

RECURSIVE NewestFirst(_)
NewestFirst(ids) ==
  IF ids = {} THEN <<>>
  ELSE LET top == CHOOSE i \in ids : \A j \in ids : Timestamp(j) <= Timestamp(i)
       IN <<top>> \o NewestFirst(ids \ {top})

\* fetchVideos: select('*').order('timestamp', {ascending: false}); [] on error
fetchVideos(table, ok) ==
  IF ok
  THEN LET ids == NewestFirst({i \in DOMAIN table : table[i].present})
       IN [k \in 1..Len(ids) |-> rowToVideoEntry(ids[k], table[ids[k]])]
  ELSE <<>>

InList(list, id) == \E k \in 1..Len(list) : list[k].id = id

----------------------------------------------------------------------------
\* loadData effect

\* the query of fetchVideos runs on the server
FetchVideos(ok) ==
  /\ load.pc = "fetching"
  /\ load' = [pc |-> "fetched", result |-> fetchVideos(rows, ok)]
  /\ UNCHANGED <<componentVars, jobVars, serverVars, delivered, videos, selectedVideo, ui, up, uphist,
                 triggers>>

\* setVideos(loadedVideos); finally setIsLoading(false)
InstallLoad ==
  /\ load.pc = "fetched"
  /\ videos' = load.result
  /\ ui' = [ui EXCEPT !.isLoading = FALSE]
  /\ load' = [pc |-> "done", result |-> <<>>]
  /\ UNCHANGED <<componentVars, jobVars, serverVars, delivered, selectedVideo, up, uphist, triggers>>

\* onSelectVideo={setSelectedVideo} of the rendered list
SelectVideo(k) ==
  /\ ~ui.isLoading
  /\ k \in 1..Len(videos)
  /\ selectedVideo' = videos[k]
  /\ UNCHANGED <<componentVars, jobVars, serverVars, delivered, videos, ui, load, up, uphist, triggers>>

----------------------------------------------------------------------------
\* realtime subscription

Notifs == [id : VideoIds, transcription : Texts]

\* the entry copied without the new transcription
PatchEntryStale(v, n) == v

\* v.id === payload.new.id ? { ...v, transcription: payload.new.transcription } : v
PatchEntry(v, n) == IF v.id = n.id THEN [v EXCEPT !.transcription = n.transcription] ELSE v

\* the patched copy appended to the list instead of replacing the entry
PatchListAppend(list, n) ==
  list \o SelectSeq([k \in 1..Len(list) |-> PatchEntry(list[k], n)], LAMBDA v : v.id = n.id)

\* setVideos(prev => prev.map(...))
PatchList(list, n) == [k \in 1..Len(list) |-> PatchEntry(list[k], n)]

\* setSelectedVideo(current => current?.id === payload.new.id ? {...} : current)
PatchSelected(current, n) ==
  IF current # NoVideo /\ current.id = n.id
  THEN [current EXCEPT !.transcription = n.transcription]
  ELSE current

\* the channel calls the handler with payload.new = n
Deliver(n) ==
  /\ n \in feed
  /\ delivered[n] < MaxDeliveries
  /\ delivered' = [delivered EXCEPT ![n] = @ + 1]
  /\ videos' = PatchList(videos, n)
  /\ selectedVideo' = PatchSelected(selectedVideo, n)
  /\ UNCHANGED <<componentVars, jobVars, serverVars, ui, load, up, uphist, triggers>>

----------------------------------------------------------------------------
\* upload flow: UploadButton -> handleFileSelect -> UploadInfoModal -> handleUpload

MiB == 1024 * 1024
NoFile == [name |-> Null, size |-> 0]
Files ==
  {[name |-> "clip.mp4", size |-> 3 * MiB],
   [name |-> "long.mp4", size |-> 7 * MiB],
   [name |-> "huge.mp4", size |-> 200 * MiB]}

\* the storage backend's global file size limit
StorageLimit == 150 * MiB

FILE_SIZE_THRESHOLD == 6 * 1024 * 1024

\* what supabase.storage.upload can answer for a file
UploadOutcomes(file) ==
  IF file.size > StorageLimit THEN {"tooLarge"} ELSE {"ok", "error", "throws"}

\* The request a branch of uploadVideoToStorage sends.  Both branches make the
\* same call, supabase.storage.from('videos').upload(filePath, file, options),
\* with the same options.
UploadCall(branch) == [api |-> "storage.upload", cacheControl |-> "3600", upsert |-> FALSE]

\* storage.upload sends the whole file in one request
TransferOf(call) == IF call.api = "storage.upload" THEN "singleShot" ELSE "resumable"

\* uploadVideoToStorage: the public URL, or null on any error
uploadVideoToStorage(file, id, outcome) ==
  [path |-> IF file.size > FILE_SIZE_THRESHOLD THEN "resumable" ELSE "standard",
   url |-> IF outcome = "ok" THEN PublicUrl(id) ELSE NoUrl]

\* handleUpload without the check of the upload's result
UploadFailedUnchecked(storageUrl) == FALSE

\* if (!storageUrl) throw new Error('Failed to upload video to storage')
UploadFailed(storageUrl) == storageUrl = NoUrl

\* the catch block of handleUpload: which alert it shows for a message
AlertFor(message) ==
  CASE message = "timeout" -> "timeout"
    [] message \in {"exceeded the maximum allowed size", "Failed to upload video to storage"}
         -> "size"
    [] OTHER -> "generic"

IdleUp == [pc |-> "idle", id |-> Null, file |-> NoFile, storageUrl |-> NoUrl]

\* finally { setIsProcessing(false); setPendingFile(null) }
Finally(u) == [u EXCEPT !.isProcessing = FALSE, !.pendingFile = NoFile]

\* handleFileSelect; the button takes no input while isProcessing
FileSelect(file) ==
  /\ ~ui.isProcessing
  /\ ui' = [ui EXCEPT !.pendingFile = file, !.showUploadModal = TRUE]
  /\ UNCHANGED <<componentVars, jobVars, serverVars, delivered, videos, selectedVideo, load, up, uphist,
                 triggers>>

\* the largest number of files in one selection or drop
MaxSelection == 2

\* e.target.files / the valid files of e.dataTransfer.files: several distinct
\* files in the order of the list
Selections ==
  {fs \in UNION {[1..n -> Files] : n \in 2..MaxSelection} :
     \A j, k \in 1..Len(fs) : j # k => fs[j] # fs[k]}

\* handleFileSelect: setPendingFile(file); setShowUploadModal(true)
handleFileSelect(u, file) == [u EXCEPT !.pendingFile = file, !.showUploadModal = TRUE]

\* for (const file of files) { await onUpload(file) }: onUpload is
\* handleFileSelect, which returns nothing, so each await resumes on the next
\* microtask and the loop ends before any other event is handled
RECURSIVE UploadEach(_, _)
UploadEach(u, fs) ==
  IF fs = <<>> THEN u ELSE UploadEach(handleFileSelect(u, Head(fs)), Tail(fs))

\* handleChange / handleDrop of the upload button with several files
FilesChosen(fs) ==
  /\ ~ui.isProcessing
  /\ ui' = UploadEach(ui, fs)
  /\ UNCHANGED <<componentVars, jobVars, serverVars, delivered, videos, selectedVideo, load, up, uphist,
                 triggers>>

\* handleUploadModalClose
ModalClose ==
  /\ ui.showUploadModal
  /\ ui' = [ui EXCEPT !.showUploadModal = FALSE, !.pendingFile = NoFile]
  /\ UNCHANGED <<componentVars, jobVars, serverVars, delivered, videos, selectedVideo, load, up, uphist,
                 triggers>>

\* onSubmit of the modal: handleUpload(pendingFile, ...) up to await uploadVideoToStorage
ModalSubmit(id) ==
  /\ ui.showUploadModal
  /\ up.pc = "idle"
  /\ id \in FreshIds \ uphist.ids
  /\ IF ui.pendingFile = NoFile
     THEN /\ ui' = Finally([ui EXCEPT !.showUploadModal = FALSE])
          /\ UNCHANGED <<up, uphist>>
     ELSE /\ ui' = [ui EXCEPT !.showUploadModal = FALSE, !.isProcessing = TRUE]
          /\ up' = [pc |-> "uploading", id |-> id, file |-> ui.pendingFile, storageUrl |-> NoUrl]
          /\ uphist' = [uphist EXCEPT !.ids = @ \cup {id}]
  /\ UNCHANGED <<componentVars, jobVars, serverVars, delivered, videos, selectedVideo, load, triggers>>

\* uploadVideoToStorage has settled
UploadDone(outcome) ==
  /\ up.pc = "uploading"
  /\ outcome \in UploadOutcomes(up.file)
  /\ LET res == uploadVideoToStorage(up.file, up.id, outcome) IN
     /\ uphist' = [uphist EXCEPT
          !.paths = @ \cup {[size |-> up.file.size, path |-> res.path,
                              transfer |-> TransferOf(UploadCall(res.path))]},
          !.uploaded = IF res.url # NoUrl THEN @ \cup {res.url} ELSE @,
          !.rejected = IF outcome = "tooLarge" THEN @ \cup {up.id} ELSE @,
          !.failed = IF res.url = NoUrl THEN @ \cup {up.id} ELSE @]
     /\ IF UploadFailed(res.url)
        THEN /\ ui' = Finally([ui EXCEPT !.alert = AlertFor("Failed to upload video to storage")])
             /\ up' = IdleUp
        ELSE /\ up' = [up EXCEPT !.pc = "inserting", !.storageUrl = res.url]
             /\ ui' = ui
  /\ UNCHANGED <<componentVars, jobVars, serverVars, delivered, videos, selectedVideo, load, triggers>>

\* triggerVideoProcessing without its try/catch: a failure to build the request throws
triggerVideoProcessingThrows(videoId, videoUrl, buildOk) ==
  [requests |-> IF buildOk THEN {[videoId |-> videoId, videoUrl |-> videoUrl]} ELSE {},
   log |-> IF buildOk THEN "sent" ELSE "setupError",
   thrown |-> ~buildOk]

\* triggerVideoProcessing: the request it sends, what it logs, whether it throws
triggerVideoProcessing(videoId, videoUrl, buildOk) ==
  [requests |-> IF buildOk THEN {[videoId |-> videoId, videoUrl |-> videoUrl]} ELSE {},
   log |-> IF buildOk THEN "sent" ELSE "setupError",
   thrown |-> FALSE]

\* the trigger moved out of the if (savedVideo) branch
ShouldTriggerAlways(saved) == TRUE

\* if (savedVideo) { ...; triggerVideoProcessing(...) } else { add locally }
ShouldTrigger(saved) == saved

\* insertVideo has settled; the rest of handleUpload runs to its finally block
InsertDone(saved, buildOk) ==
  /\ up.pc = "inserting"
  /\ LET newVideo == Entry(up.id, up.storageUrl, Null)
         row == videoEntryToRow(newVideo)
         savedVideo == rowToVideoEntry(up.id, row)
         trig == triggerVideoProcessing(up.id, up.storageUrl, buildOk)
     IN
     /\ rows' = IF saved THEN [rows EXCEPT ![up.id] = row] ELSE rows
     /\ videos' = IF saved THEN <<savedVideo>> \o videos ELSE <<newVideo>> \o videos
     /\ selectedVideo' = IF saved THEN savedVideo ELSE newVideo
     /\ uphist' = [uphist EXCEPT
          !.inserted = IF saved THEN @ \cup {up.id} ELSE @,
          !.failed = IF saved THEN @ ELSE @ \cup {up.id},
          !.triggered = IF ShouldTrigger(saved) THEN @ \cup {up.id} ELSE @]
     /\ IF ShouldTrigger(saved)
        THEN /\ triggers' = triggers \cup trig.requests
             /\ ui' = Finally(IF trig.thrown THEN [ui EXCEPT !.alert = AlertFor("trigger")] ELSE ui)
        ELSE /\ buildOk
             /\ ui' = Finally(ui)
             /\ UNCHANGED triggers
  /\ up' = IdleUp
  /\ UNCHANGED <<componentVars, jobVars, apiKey, feed, delivered, load>>

\* what transcribeVideo can return: a text of the provider, or null
TranscribeResults(key) == IF HasCredential(key) THEN Texts \cup {Null} ELSE {Null}

\* The edge function serves the request r of triggerVideoProcessing.  The steps of
\* an invocation touch only its own locals and the provider until the row update,
\* so here one invocation is one step: it is refused (400), or it throws before
\* transcribeVideo is called (500), or transcribeVideo returns t and the handler
\* goes on as in Respond.
ProcessVideo(r, reached, t, updateOk) ==
  /\ r \in triggers
  /\ triggers' = triggers \ {r}
  /\ t \in TranscribeResults(apiKey)
  /\ IF ValidRequest(r.videoId, r.videoUrl) /\ reached /\ Truthy(t) /\ updateOk
     THEN /\ rows' = UpdateTranscription(rows, r.videoId, t)
          /\ feed' = feed \cup ChangeEvents(rows', r.videoId)
     ELSE UNCHANGED <<rows, feed>>
  /\ UNCHANGED <<componentVars, jobVars, apiKey, delivered, videos, selectedVideo, ui, load, up, uphist>>

\* the fetch of triggerVideoProcessing is rejected: .catch logs it
TriggerLost(r) ==
  /\ r \in triggers
  /\ triggers' = triggers \ {r}
  /\ UNCHANGED <<componentVars, jobVars, serverVars, delivered, videos, selectedVideo, ui, load, up, uphist>>

----------------------------------------------------------------------------
\* Event media upload loops: AddEventMediaModal.handleUpload and
\* EventModal.handleSubmit.  The code between two awaits is one step.

MediaModals == {"AddEventMedia", "Event"}
MediaNames == {"a.mp4", "b.jpg"}
MaxMediaFiles == 2

\* const progressKey = `${i}-${mediaItem.file.name}` (i has no dash: one key per pair)
ProgressKey(i, name) == <<i, name>>

IdleMedia ==
  [modal |-> "none", pc |-> "closed", mediaFiles |-> <<>>, batch |-> <<>>, i |-> 0,
   uploadProgress |-> {}, busy |-> FALSE, alert |-> FALSE]

\* the key of the file the loop is at
CurrentKey(m) == ProgressKey(m.i, m.batch[m.i + 1])

\* the catch block of the loop body without its delete
ClearOnFailureLeak(progress, key) == progress

\* catch: setUploadProgress(prev => { const next = {...prev}; delete next[progressKey]; ... })
ClearOnFailure(progress, key) == progress \ {key}

\* the same update at the end of the try block
ClearOnSuccess(progress, key) == progress \ {key}

\* setMediaFiles([]); setUploadProgress({}); onClose(); finally: busy flag off
FinishMedia(m) ==
  [m EXCEPT !.pc = "closed", !.mediaFiles = <<>>, !.uploadProgress = {}, !.busy = FALSE]

\* the outer catch: alert, the modal stays open; finally: busy flag off
FailMedia(m) == [m EXCEPT !.pc = "form", !.alert = TRUE, !.busy = FALSE]

\* for (let i = 0; i < mediaFiles.length; i++) { setUploadProgress(+key); await upload ...
\* and, when the loop is over, the code up to the next await
ContinueLoop(m) ==
  IF m.i < Len(m.batch)
  THEN [m EXCEPT !.pc = "uploading", !.uploadProgress = @ \cup {CurrentKey(m)}]
  ELSE IF m.modal = "Event" THEN [m EXCEPT !.pc = "refetch"] ELSE FinishMedia(m)

\* the effect on isOpen/event: the form is reset when the modal opens
OpenMediaModal(modal) ==
  /\ media.pc = "closed"
  /\ media' = [IdleMedia EXCEPT !.modal = modal, !.pc = "form"]
  /\ UNCHANGED exceptMedia

\* handleFileSelect of the modal
SelectMediaFile(name) ==
  /\ media.pc = "form"
  /\ Len(media.mediaFiles) < MaxMediaFiles
  /\ media' = [media EXCEPT !.mediaFiles = Append(@, name)]
  /\ UNCHANGED exceptMedia

\* removeMediaFile(index)
RemoveMediaFile(index) ==
  /\ media.pc = "form"
  /\ index \in 0..(Len(media.mediaFiles) - 1)
  /\ media' = [media EXCEPT !.mediaFiles =
                 SubSeq(@, 1, index) \o SubSeq(@, index + 2, Len(@))]
  /\ UNCHANGED exceptMedia

\* onClose of the cancel button (disabled while uploading)
CloseMediaModal ==
  /\ media.pc = "form"
  /\ media' = [media EXCEPT !.pc = "closed"]
  /\ UNCHANGED exceptMedia

\* the submit button: handleUpload / handleSubmit up to its first await
SubmitMedia ==
  /\ media.pc = "form"
  /\ media' =
       IF media.modal = "Event"
       THEN [media EXCEPT !.pc = "saveEvent", !.busy = TRUE, !.batch = media.mediaFiles, !.i = 0]
       ELSE IF Len(media.mediaFiles) = 0
            THEN [media EXCEPT !.pc = "closed"]
            ELSE ContinueLoop([media EXCEPT !.busy = TRUE, !.batch = media.mediaFiles, !.i = 0])
  /\ UNCHANGED exceptMedia

\* EventModal: updateEvent / insertEvent has settled
SaveEventSettled(ok) ==
  /\ media.pc = "saveEvent"
  /\ media' = IF ok THEN ContinueLoop(media) ELSE FailMedia(media)
  /\ UNCHANGED exceptMedia

\* uploadEventMediaToStorage has settled
MediaUploadSettled(outcome) ==
  /\ media.pc = "uploading"
  /\ media' =
       IF outcome = "url"
       THEN [media EXCEPT !.pc = "inserting"]
       ELSE ContinueLoop([media EXCEPT
              !.uploadProgress = ClearOnFailure(@, CurrentKey(media)), !.i = @ + 1])
  /\ UNCHANGED exceptMedia

\* insertEventMedia has settled (the list of saved media is not part of the model)
MediaInsertSettled(outcome) ==
  /\ media.pc = "inserting"
  /\ media' =
       ContinueLoop([media EXCEPT
         !.uploadProgress = IF outcome = "throws" THEN ClearOnFailure(@, CurrentKey(media))
                            ELSE ClearOnSuccess(@, CurrentKey(media)),
         !.i = @ + 1])
  /\ UNCHANGED exceptMedia

\* EventModal: updateEvent(savedEvent) after the loop has settled
RefetchSettled(ok) ==
  /\ media.pc = "refetch"
  /\ media' = IF ok THEN FinishMedia(media) ELSE FailMedia(media)
  /\ UNCHANGED exceptMedia

MediaNext ==
  \/ \E m \in MediaModals : OpenMediaModal(m)
  \/ \E n \in MediaNames : SelectMediaFile(n)
  \/ \E k \in 0..(MaxMediaFiles - 1) : RemoveMediaFile(k)
  \/ CloseMediaModal
  \/ SubmitMedia
  \/ \E b \in BOOLEAN : SaveEventSettled(b)
  \/ \E o \in {"url", "null", "throws"} : MediaUploadSettled(o)
  \/ \E o \in {"saved", "null", "throws"} : MediaInsertSettled(o)
  \/ \E b \in BOOLEAN : RefetchSettled(b)

----------------------------------------------------------------------------
\* The vertical feed: NaiasView (EventsWall has the same effects and handlers).
\* Lengths are in quarters of an item's height; scrollTop = 4k shows item k.

FeedLen == 10
Items == 0..(FeedLen - 1)
MaxFeedInputs == 1
MaxKeyPresses == 2
MaxTop == 4 * (FeedLen - 1)
Qualities == {"slow", "medium", "fast"}

\* const count = quality === 'fast' ? 3 : quality === 'medium' ? 2 : 1
preloadCount(quality) == IF quality = "fast" THEN 3 ELSE IF quality = "medium" THEN 2 ELSE 1

Abs(x) == IF x < 0 THEN -x ELSE x

\* Twice the distance of the container's centre from the centre of the <style>
\* element, its first child: the element has no box, its rectangle is all zeros,
\* so the distance is containerRect.top + height / 2, more than half an item's
\* height (the container lies under the page header) and less than three quarters.
StyleDistance2 == 5

\* Twice the distance between the container's centre and the centre of
\* container.children[index]: children[0] is the <style> element and
\* children[index] for index > 0 is the <div> of item index - 1.
ChildDistance2(index, top) ==
  IF index = 0 THEN StyleDistance2 ELSE 2 * Abs(4 * (index - 1) - top)

\* videos.forEach((video, index) => ... if (distance < closestDistance) ...)
ClosestIndex(top) ==
  CHOOSE c \in Items :
    \A j \in Items :
      \/ ChildDistance2(c, top) < ChildDistance2(j, top)
      \/ (ChildDistance2(c, top) = ChildDistance2(j, top) /\ c <= j)

\* quarters of item i inside the container's scrollport
Visible(i, top) == IF Abs(4 * i - top) >= 4 THEN 0 ELSE 4 - Abs(4 * i - top)

\* What the IntersectionObserver reports for item i.  The container clips its
\* items, so the root margin adds nothing; an item that only touches the
\* scrollport's edge is reported as intersecting with ratio 0 when edge is TRUE.
Report(i, top, edge) ==
  [isIntersecting |-> Visible(i, top) > 0 \/ (edge /\ Abs(4 * i - top) = 4),
   quarters |-> Visible(i, top)]

Unreported == [isIntersecting |-> FALSE, quarters |-> -1]

\* entry.isIntersecting && entry.intersectionRatio > 0.5
IsActive(report) == report.isIntersecting /\ report.quarters > 2

Attached(f) == {i \in Items : f.src[i] # "none"}

\* if (el && !el.src && !loadedVideos.has(id)) { el.preload = mode; el.src = url; setLoadedVideos(+id) }
\* for every item of targets; closure is the loadedVideos of the render that made the handler
AttachWith(f, closure, targets, mode) ==
  LET new == {i \in targets \cap Items : f.src[i] = "none" /\ i \notin closure}
  IN [f EXCEPT !.src = [i \in Items |-> IF i \in new THEN mode ELSE f.src[i]],
               !.loadedVideos = @ \cup new]

\* The attaching part of handleScroll for a closest index c: preloadVideo for c,
\* for the preloadCount items after it, and for the item before it on fast.
preloadAround(f, c) ==
  LET useAuto == IF f.connectionQuality = "fast" THEN "auto" ELSE "metadata"
      ahead == {c + i : i \in 1..preloadCount(f.connectionQuality)}
      behind == IF f.connectionQuality = "fast" /\ c > 0 THEN {c - 1} ELSE {}
      closure == f.loadedVideos
  IN AttachWith(AttachWith(f, closure, {c} \cup ahead, useAuto), closure, behind, "auto")

\* handleScroll of the scroll effect
handleScroll(f) ==
  IF f.isScrolling THEN f
  ELSE LET c == ClosestIndex(f.scrollTop)
       IN preloadAround([f EXCEPT !.currentIndex = c], c)

\* The effects that run again after a render: the scroll effect (dependencies
\* videos, isScrolling, loadedVideos) calls handleScroll, the observer effect
\* (dependency loadedVideos) makes a new observer, which reports every item anew.
AfterRender(before, after) ==
  LET g == IF before.isScrolling # after.isScrolling \/ before.loadedVideos # after.loadedVideos
           THEN handleScroll(after) ELSE after
  IN IF g.loadedVideos # before.loadedVideos
     THEN [g EXCEPT !.observed = [i \in Items |-> Unreported]]
     ELSE g

\* no programmatic smooth scroll is in flight
NoSmooth == 0 - 1

UnmountedFeed ==
  [mounted |-> FALSE, connectionQuality |-> "medium", edge |-> FALSE,
   src |-> [i \in Items |-> "none"], loadedVideos |-> {}, currentIndex |-> 0,
   autoplay |-> FALSE, isScrolling |-> FALSE, timers |-> 0, scrollTop |-> 0,
   ready |-> {}, playing |-> {}, canplayListeners |-> {}, observed |-> [i \in Items |-> Unreported],
   rafPending |-> FALSE, inputs |-> 0, smooth |-> NoSmooth, queued |-> {}, failed |-> {},
   reloadTimers |-> {}, reloaded |-> {}]

\* video.play(): the promise is rejected when the browser blocks autoplay, and
\* for an element in error
Play(f, i) == IF f.autoplay /\ i \notin f.failed THEN [f EXCEPT !.playing = @ \cup {i}] ELSE f

\* readyState >= 3 ? play() : addEventListener('canplay', () => play(), { once: true })
PlayWhenReady(f, i) ==
  IF i \in f.ready THEN Play(f, i) ELSE [f EXCEPT !.canplayListeners = @ \cup {i}]

\* The first render: the mount effect asks for an animation frame, the scroll
\* effect calls handleScroll, the observer effect makes the observer.
Mount(quality, edge, autoplay) ==
  /\ ~naias.mounted
  /\ naias' = handleScroll([naias EXCEPT !.mounted = TRUE, !.connectionQuality = quality,
                                         !.edge = edge, !.autoplay = autoplay,
                                         !.rafPending = TRUE])
  /\ UNCHANGED exceptFeed

\* the requestAnimationFrame callback of the mount effect
Raf ==
  /\ naias.mounted /\ naias.rafPending
  /\ LET f == [naias EXCEPT !.rafPending = FALSE]
         mode == IF f.connectionQuality = "fast" THEN "auto" ELSE "metadata"
         first == PlayWhenReady(AttachWith(f, {}, {0}, "auto"), 0)
         g == IF f.src[0] = "none"
              THEN AttachWith(first, {}, 1..preloadCount(f.connectionQuality), mode)
              ELSE f
     IN naias' = AfterRender(naias, g)
  /\ UNCHANGED exceptFeed

\* the user drags or flicks the feed: a scroll event at the new position
UserScroll(delta) ==
  /\ naias.mounted
  /\ naias.scrollTop + delta \in 0..MaxTop
  /\ LET f == [naias EXCEPT !.scrollTop = @ + delta, !.inputs = @ + 1, !.smooth = NoSmooth]
     IN naias' = AfterRender(naias, handleScroll(f))
  /\ UNCHANGED exceptFeed

\* one entry of an observer callback
ObserveEntry(f, closure, i) ==
  LET report == Report(i, f.scrollTop, f.edge)
      lazy == report.isIntersecting /\ i \notin closure /\ f.src[i] = "none"
      preloadAhead == IF preloadCount(f.connectionQuality) - 1 > 1
                      THEN preloadCount(f.connectionQuality) - 1 ELSE 1
      mode == IF f.connectionQuality = "fast" THEN "auto" ELSE "metadata"
      g == IF lazy
           THEN AttachWith(AttachWith(f, closure, {i}, "auto"), closure,
                           {i + k : k \in 1..preloadAhead}, mode)
           ELSE f
      h == IF IsActive(report)
           THEN (IF g.src[i] # "none" THEN PlayWhenReady(g, i) ELSE g)
           ELSE [g EXCEPT !.playing = @ \ {i}]
  IN [h EXCEPT !.observed[i] = report]

RECURSIVE ObserveFrom(_, _, _)
ObserveFrom(f, closure, i) ==
  IF i >= FeedLen THEN f
  ELSE ObserveFrom(IF f.observed[i] # Report(i, f.scrollTop, f.edge)
                   THEN ObserveEntry(f, closure, i) ELSE f,
                   closure, i + 1)

Settled(f) == \A i \in Items : f.observed[i] = Report(i, f.scrollTop, f.edge)

\* The observer's callback: entries.forEach over every item whose intersection
\* changed since its last report (every item for a new observer).
Observe ==
  /\ naias.mounted /\ ~Settled(naias)
  /\ naias' = AfterRender(naias, ObserveFrom(naias, naias.loadedVideos, 0))
  /\ UNCHANGED exceptFeed

\* handleKeyDown for ArrowDown / ArrowUp
KeyDown(key) ==
  /\ naias.mounted
  /\ LET q == naias.connectionQuality
         nextIndex == IF key = "ArrowDown"
                      THEN (IF naias.currentIndex + 1 < FeedLen - 1
                            THEN naias.currentIndex + 1 ELSE FeedLen - 1)
                      ELSE (IF naias.currentIndex - 1 > 0 THEN naias.currentIndex - 1 ELSE 0)
         mode == IF q = "fast" THEN "auto" ELSE "metadata"
         preloadAhead == IF q = "fast" THEN 2 ELSE IF q = "medium" THEN 1 ELSE 0
         closure == naias.loadedVideos
         f0 == [naias EXCEPT !.isScrolling = TRUE, !.inputs = @ + 1, !.timers = @ + 1]
         f1 == AttachWith(f0, closure, {nextIndex + k : k \in 0..preloadAhead}, mode)
         f2 == IF q = "fast" /\ nextIndex > 0
               THEN AttachWith(f1, closure, {nextIndex - 1}, "auto") ELSE f1
         \* children[nextIndex].scrollIntoView({ behavior: 'smooth' }): the <style>
         \* element has no box, nothing scrolls for it
         f3 == [f2 EXCEPT !.smooth = IF nextIndex > 0 THEN 4 * (nextIndex - 1) ELSE @,
                          !.currentIndex = nextIndex]
     IN naias' = AfterRender(naias, f3)
  /\ UNCHANGED exceptFeed

\* The smooth scroll arrives at its target; the scroll event it raises runs the
\* scroll listener.
SmoothArrive ==
  /\ naias.smooth # NoSmooth
  /\ LET f == [naias EXCEPT !.scrollTop = naias.smooth, !.smooth = NoSmooth]
     IN naias' = AfterRender(naias, handleScroll(f))
  /\ UNCHANGED exceptFeed

\* setTimeout(() => setIsScrolling(false), 500)
TimerFires ==
  /\ naias.timers > 0
  /\ naias' = AfterRender(naias, [naias EXCEPT !.timers = @ - 1, !.isScrolling = FALSE])
  /\ UNCHANGED exceptFeed

\* onClick of a video the user can see
Click(i) ==
  /\ naias.mounted
  /\ Visible(i, naias.scrollTop) > 0
  /\ LET f == [naias EXCEPT !.inputs = @ + 1]
         g == IF f.src[i] = "none"
              THEN [AttachWith(f, {}, {i}, "auto") EXCEPT !.canplayListeners = @ \cup {i}]
              ELSE IF i \in f.playing
                   THEN [f EXCEPT !.playing = @ \ {i}]
                   ELSE IF i \in f.failed THEN f
                   ELSE [f EXCEPT !.playing = @ \cup {i}]
     IN naias' = AfterRender(naias, g)
  /\ UNCHANGED exceptFeed

\* readyState is read by the handlers of an item in view and by the item's own
\* events only, so the buffering and the errors of an item that is out of view,
\* is not playing and has no listener are taken when the item comes into view.
Watched(f, i) ==
  Visible(i, f.scrollTop) > 0 \/ i \in f.canplayListeners \/ i \in f.playing

\* The element buffers step by step: loadeddata is dispatched while readyState
\* is 2 (onLoadedData does nothing), then readyState reaches 3 and canplay is
\* dispatched; every once-listener added for it runs play().
CanPlay(i) ==
  /\ naias.src[i] # "none" /\ i \notin naias.ready /\ i \notin naias.failed
  /\ Watched(naias, i)
  /\ LET f == [naias EXCEPT !.ready = @ \cup {i}, !.canplayListeners = @ \ {i}]
     IN naias' = IF i \in naias.canplayListeners THEN Play(f, i) ELSE f
  /\ UNCHANGED exceptFeed

\* The element buffers at once: readyState goes to 3 or more and loadeddata and
\* canplay are queued, not yet dispatched.
Buffered(i) ==
  /\ naias.src[i] # "none" /\ i \notin naias.ready /\ i \notin naias.failed
  /\ Watched(naias, i)
  /\ naias' = [naias EXCEPT !.ready = @ \cup {i}, !.queued = @ \cup {i}]
  /\ UNCHANGED exceptFeed

\* onLoadedData: if (videoEl.readyState >= 3) videoEl.pause()
onLoadedData(f, i) == IF i \in f.ready THEN [f EXCEPT !.playing = @ \ {i}] ELSE f

\* The queued loadeddata and canplay of item i are dispatched: onLoadedData, then
\* the canplay listeners (onCanPlay only rewinds).
MediaEvents(i) ==
  /\ i \in naias.queued
  /\ LET f == onLoadedData([naias EXCEPT !.queued = @ \ {i}], i)
         g == [f EXCEPT !.canplayListeners = @ \ {i}]
     IN naias' = IF i \in naias.canplayListeners THEN Play(g, i) ELSE g
  /\ UNCHANGED exceptFeed

\* the source of item i after its error handler ran, had the handler cleared it
SrcAfterErrorCleared(src, i) == [src EXCEPT ![i] = "none"]

\* the source of item i after its error handler ran: videoEl.load() keeps src
SrcAfterError(src, i) == src

\* The element fails (videoEl.error is set, playback stops); onError:
\* setTimeout(() => { if (!videoEl.src || videoEl.error) videoEl.load() }, 2000)
VideoError(i) ==
  /\ naias.src[i] # "none" /\ i \notin naias.failed
  /\ Watched(naias, i)
  /\ naias' = [naias EXCEPT !.failed = @ \cup {i}, !.ready = @ \ {i}, !.queued = @ \ {i},
                            !.playing = @ \ {i}, !.reloadTimers = @ \cup {i},
                            !.src = SrcAfterError(@, i)]
  /\ UNCHANGED exceptFeed

\* if (!videoEl.src || videoEl.error)
ShouldReload(f, i) == f.src[i] = "none" \/ i \in f.failed

\* the timer of onError fires: videoEl.load() starts the load again
ReloadTimer(i) ==
  /\ i \in naias.reloadTimers
  /\ naias' = IF ShouldReload(naias, i)
              THEN [naias EXCEPT !.reloadTimers = @ \ {i}, !.failed = @ \ {i},
                                 !.reloaded = @ \cup {i}]
              ELSE [naias EXCEPT !.reloadTimers = @ \ {i}]
  /\ UNCHANGED exceptFeed

MountAny == \E q \in Qualities, edge \in BOOLEAN, autoplay \in BOOLEAN : Mount(q, edge, autoplay)

\* the feed under scrolls, keys and clicks, up to MaxFeedInputs of them, with
\* media that buffers or fails; the reload delay of onError has not elapsed
FeedNext ==
  \/ MountAny
  \/ Raf
  \/ \E delta \in {-4, -1, 1, 4} : naias.inputs < MaxFeedInputs /\ UserScroll(delta)
  \/ Observe
  \/ \E key \in {"ArrowDown", "ArrowUp"} : naias.inputs < MaxFeedInputs /\ KeyDown(key)
  \/ SmoothArrive
  \/ TimerFires
  \/ \E i \in Items : naias.inputs < MaxFeedInputs /\ Click(i)
  \/ \E i \in Items : CanPlay(i)
  \/ \E i \in Items : Buffered(i)
  \/ \E i \in Items : MediaEvents(i)
  \/ \E i \in Items : VideoError(i)

\* the feed under arrow keys alone, up to MaxKeyPresses of them
KeysNext ==
  \/ MountAny
  \/ Raf
  \/ Observe
  \/ \E key \in {"ArrowDown", "ArrowUp"} : naias.inputs < MaxKeyPresses /\ KeyDown(key)
  \/ SmoothArrive
  \/ TimerFires

\* the feed left alone, with media that buffers, fails and is reloaded
ReloadNext ==
  \/ MountAny
  \/ Raf
  \/ Observe
  \/ \E i \in Items : CanPlay(i)
  \/ \E i \in Items : Buffered(i)
  \/ \E i \in Items : MediaEvents(i)
  \/ \E i \in Items : VideoError(i)
  \/ \E i \in Items : ReloadTimer(i)

----------------------------------------------------------------------------
\* extractFrameFromVideo(videoFile, time): one call, from the Promise executor to
\* the events of its video element and its timer.

SeekTimes == {1, 5}
Dimensions == {<<640, 360>>, <<1920, 1080>>, <<3840, 2160>>}

IdleFrame ==
  [pc |-> "idle", file |-> Null, time |-> 0, phase |-> "none", timer |-> "none",
   element |-> "none", url |-> "none", revokes |-> 0, videoWidth |-> 0, videoHeight |-> 0,
   canvas |-> <<0, 0>>, result |-> "none", lateSettles |-> 0]

\* resolve / reject where a later call settled the promise anew
SettleLast(f, result) == [f EXCEPT !.pc = "settled", !.result = result]

\* resolve / reject: only the first call settles the promise
Settle(f, result) ==
  IF f.pc = "pending" THEN [f EXCEPT !.pc = "settled", !.result = result]
  ELSE [f EXCEPT !.lateSettles = @ + 1]

\* URL.revokeObjectURL(fileURL); video.remove()
Release(f) == [f EXCEPT !.url = "revoked", !.revokes = @ + 1, !.element = "removed"]

\* cleanup(): clearTimeout(timeout), then the release
cleanup(f) ==
  Release([f EXCEPT !.timer = IF @ = "armed" THEN "cleared" ELSE @])

\* the timer's callback with the release left out
TimeoutReleaseMissing(f) == f

\* the timer's callback: URL.revokeObjectURL(fileURL); video.remove()
TimeoutRelease(f) == Release(f)

\* if (canvas.width > 1280) { scale = 1280 / canvas.width; width = 1280; height = videoHeight * scale }
CanvasSize(w, h) == IF w > 1280 THEN <<1280, (h * 1280) \div w>> ELSE <<w, h>>

\* the Promise executor: arm the timer, create the element and the object URL
StartExtract(file, time) ==
  /\ frame.pc = "idle"
  /\ frame' = [IdleFrame EXCEPT !.pc = "pending", !.file = file.name, !.time = time,
                                !.phase = "loading", !.timer = "armed",
                                !.element = "live", !.url = "live"]
  /\ UNCHANGED exceptFrame

\* video.onloadeddata: video.currentTime = time
FrameLoadedData(dim) ==
  /\ frame.phase = "loading"
  /\ frame' = [frame EXCEPT !.phase = "seeking", !.videoWidth = dim[1], !.videoHeight = dim[2]]
  /\ UNCHANGED exceptFrame

\* video.onseeked: draw and encode, or no 2d context, or an exception on the way
FrameSeeked(outcome) ==
  /\ frame.phase = "seeking"
  /\ LET f == [frame EXCEPT !.phase = "seeked",
                            !.canvas = CanvasSize(frame.videoWidth, frame.videoHeight)]
     IN frame' = Settle(cleanup(f), outcome)
  /\ UNCHANGED exceptFrame

\* video.onerror
FrameError ==
  /\ frame.phase \in {"loading", "seeking"}
  /\ frame' = Settle(cleanup([frame EXCEPT !.phase = "failed"]), "decodeError")
  /\ UNCHANGED exceptFrame

\* the 30 s timer fires
FrameTimeout ==
  /\ frame.timer = "armed"
  /\ frame' = Settle(TimeoutRelease([frame EXCEPT !.timer = "fired"]), "timeout")
  /\ UNCHANGED exceptFrame

FrameNext ==
  \/ \E file \in Files, time \in SeekTimes : StartExtract(file, time)
  \/ \E dim \in Dimensions : FrameLoadedData(dim)
  \/ \E outcome \in {"frame", "noContext", "exception"} : FrameSeeked(outcome)
  \/ FrameError
  \/ FrameTimeout

----------------------------------------------------------------------------
\* The carousel of AddEventMediaModal.  The scroll position is the index of the
\* item at the centre of the container (the container snaps to its items).  The
\* container's children are the <style> element, which has no box, and then
\* the items: children[k] is item k - 1 for k > 0.

\* the largest number of media entries of the event
MaxCarousel == 4

ClosedCarousel ==
  [isOpen |-> FALSE, length |-> 0, currentMediaIndex |-> 0, isScrollingRef |-> FALSE,
   position |-> 0, smooth |-> NoSmooth, timers |-> 0, openTimer |-> FALSE]

\* where container.scrollTo({ left: scrollLeft, behavior: 'smooth' }) goes for
\* children[k]: item k - 1; for the <style> element the rectangle is all zero
\* and the computed offset lies half a container to the left of the position
ScrollTarget(k, position) ==
  IF k = 0 THEN (IF position > 0 THEN position - 1 ELSE 0) ELSE k - 1

\* the effect with dependencies [currentMediaIndex, existingMedia.length]:
\* if (carouselRef.current && existingMedia.length > 0 && !isScrollingRef.current)
\*   { isScrollingRef.current = true; scrollTo(...); setTimeout(reset, 500) }
scrollEffect(c) ==
  IF c.length > 0 /\ ~c.isScrollingRef
  THEN [c EXCEPT !.isScrollingRef = TRUE,
                 !.smooth = ScrollTarget(c.currentMediaIndex, c.position),
                 !.timers = @ + 1]
  ELSE c

\* setCurrentMediaIndex(index) and the render after it: the effect runs when
\* the index has changed
setCurrentMediaIndex(c, index) ==
  IF index # c.currentMediaIndex
  THEN scrollEffect([c EXCEPT !.currentMediaIndex = index])
  ELSE c

\* onScroll of the container: the child closest to the centre, the <style>
\* element counted as child 0
onScroll(c) ==
  IF c.isScrollingRef THEN c
  ELSE LET closestIndex == c.position + 1
       IN IF closestIndex # c.currentMediaIndex /\ closestIndex >= 0 /\ closestIndex < c.length
          THEN setCurrentMediaIndex(c, closestIndex)
          ELSE c

\* the modal opens for an event with n media entries: the first effect resets
\* the index and the flag and arms the 100 ms timer, the render with the
\* entries runs the scroll effect
OpenModal(n) ==
  /\ ~carousel.isOpen
  /\ carousel' = scrollEffect([ClosedCarousel EXCEPT !.isOpen = TRUE, !.length = n,
                                                     !.openTimer = TRUE])
  /\ UNCHANGED exceptCarousel

\* the 100 ms timer: carouselRef.current.scrollTo({ left: 0, behavior: 'auto' })
OpenTimer ==
  /\ carousel.openTimer
  /\ LET c == [carousel EXCEPT !.openTimer = FALSE]
     IN carousel' = IF c.length > 0
                    THEN (IF c.position # 0
                          THEN onScroll([c EXCEPT !.position = 0, !.smooth = NoSmooth])
                          ELSE c)
                    ELSE c
  /\ UNCHANGED exceptCarousel

\* scrollToMedia(index), from a dot, from scrollPrevious or from scrollNext
scrollToMedia(index) ==
  /\ carousel.isOpen
  /\ index >= 0 /\ index < carousel.length
  /\ carousel' = setCurrentMediaIndex([carousel EXCEPT !.isScrollingRef = TRUE], index)
  /\ UNCHANGED exceptCarousel

\* setTimeout(() => { isScrollingRef.current = false }, 500) fires
ResetTimer ==
  /\ carousel.timers > 0
  /\ carousel' = [carousel EXCEPT !.timers = @ - 1, !.isScrollingRef = FALSE]
  /\ UNCHANGED exceptCarousel

\* the smooth scroll arrives; a scroll event is raised when the position changed
CarouselArrive ==
  /\ carousel.smooth # NoSmooth
  /\ LET c == [carousel EXCEPT !.position = carousel.smooth, !.smooth = NoSmooth]
     IN carousel' = IF c.position # carousel.position THEN onScroll(c) ELSE c
  /\ UNCHANGED exceptCarousel

\* the user drags the carousel to another item
CarouselScroll(position) ==
  /\ carousel.isOpen
  /\ position < carousel.length /\ position # carousel.position
  /\ carousel' = onScroll([carousel EXCEPT !.position = position, !.smooth = NoSmooth])
  /\ UNCHANGED exceptCarousel

CarouselNext ==
  \/ \E n \in 0..MaxCarousel : OpenModal(n)
  \/ OpenTimer
  \/ \E index \in 0..MaxCarousel - 1 : scrollToMedia(index)
  \/ ResetTimer
  \/ CarouselArrive
  \/ \E position \in 0..MaxCarousel - 1 : CarouselScroll(position)

----------------------------------------------------------------------------
\* compressVideo(videoFile, maxSizeMB): one call.  A JavaScript number is a
\* record: a finite integer, an infinity or NaN.  The quotient is kept as its
\* integer part: the bounds it is compared with are integers and the recorder
\* takes an unsigned long, so the fraction never decides anything.

Finite(n) == [kind |-> "finite", n |-> n]
Infinity == [kind |-> "infinity", n |-> 0]
NaN == [kind |-> "nan", n |-> 0]

maxBitrate == 1000000
minBitrate == 200000

MaxSizes == {0, 1, 5, 45}
\* video.duration in hundredths of a second; a recording without a duration
\* header is infinite
Durations == {Finite(0), Finite(100), Finite(800), Finite(6000), Finite(360000), Infinity}

\* (targetSizeBytes * 8) / duration, duration in hundredths of a second
BitsPerSecond(targetSizeBytes, duration) ==
  LET bits == targetSizeBytes * 8
  IN IF duration.kind = "infinity" THEN Finite(0)
     ELSE IF duration.n = 0 THEN (IF bits = 0 THEN NaN ELSE Infinity)
     ELSE Finite((bits \div duration.n) * 100 + ((bits % duration.n) * 100) \div duration.n)

\* Math.max(x, b) and Math.min(x, b) for a finite b
MathMax(x, b) ==
  IF x.kind = "nan" THEN NaN
  ELSE IF x.kind = "infinity" THEN Infinity
  ELSE Finite(IF x.n > b THEN x.n ELSE b)

MathMin(x, b) ==
  IF x.kind = "nan" THEN NaN
  ELSE IF x.kind = "infinity" THEN Finite(b)
  ELSE Finite(IF x.n < b THEN x.n ELSE b)

\* The conversion of a number to the unsigned long of MediaRecorderOptions: NaN
\* and the infinities become 0; the finite values here are below 2^32 and stay.
ToUnsignedLong(x) == IF x.kind = "finite" THEN x.n ELSE 0

\* const targetBitrate = Math.max((targetSizeBytes * 8) / duration, 200000)
targetBitrate(maxSizeMB, duration) ==
  MathMax(BitsPerSecond(maxSizeMB * 1024 * 1024, duration), minBitrate)

\* the recorder's bitrate with the cap left out
videoBitsPerSecondUncapped(maxSizeMB, duration) ==
  ToUnsignedLong(targetBitrate(maxSizeMB, duration))

\* videoBitsPerSecond: Math.min(targetBitrate, maxBitrate)
videoBitsPerSecond(maxSizeMB, duration) ==
  ToUnsignedLong(MathMin(targetBitrate(maxSizeMB, duration), maxBitrate))

IdleComp ==
  [pc |-> "idle", file |-> Null, maxSizeMB |-> 0, duration |-> Finite(0),
   videoBitsPerSecond |-> 0, result |-> "none"]

\* the Promise executor: a file that is small enough is returned as it is
StartCompress(file, maxSizeMB) ==
  /\ comp.pc = "idle"
  /\ comp' = IF file.size <= maxSizeMB * 1024 * 1024
             THEN [IdleComp EXCEPT !.pc = "resolved", !.file = file.name,
                                   !.maxSizeMB = maxSizeMB, !.result = "original"]
             ELSE [IdleComp EXCEPT !.pc = "loading", !.file = file.name,
                                   !.maxSizeMB = maxSizeMB]
  /\ UNCHANGED exceptComp

\* video.onloadedmetadata: no 2d context, no supported codec, or the recorder starts
CompLoadedMetadata(duration, hasContext, hasCodec) ==
  /\ comp.pc = "loading"
  /\ comp' = IF ~hasContext
             THEN [comp EXCEPT !.pc = "rejected", !.duration = duration, !.result = "noContext"]
             ELSE IF ~hasCodec
             THEN [comp EXCEPT !.pc = "rejected", !.duration = duration, !.result = "noCodec"]
             ELSE [comp EXCEPT !.pc = "recording", !.duration = duration,
                               !.videoBitsPerSecond = videoBitsPerSecond(comp.maxSizeMB, duration)]
  /\ UNCHANGED exceptComp

\* video.onerror
CompLoadError ==
  /\ comp.pc = "loading"
  /\ comp' = [comp EXCEPT !.pc = "rejected", !.result = "loadError"]
  /\ UNCHANGED exceptComp

\* mediaRecorder.onstop
RecorderStop ==
  /\ comp.pc = "recording"
  /\ comp' = [comp EXCEPT !.pc = "resolved", !.result = "compressed"]
  /\ UNCHANGED exceptComp

\* mediaRecorder.onerror
RecorderError ==
  /\ comp.pc = "recording"
  /\ comp' = [comp EXCEPT !.pc = "rejected", !.result = "recorderError"]
  /\ UNCHANGED exceptComp

CompNext ==
  \/ \E file \in Files, maxSizeMB \in MaxSizes : StartCompress(file, maxSizeMB)
  \/ \E duration \in Durations, hasContext \in BOOLEAN, hasCodec \in BOOLEAN :
       CompLoadedMetadata(duration, hasContext, hasCodec)
  \/ CompLoadError
  \/ RecorderStop
  \/ RecorderError

----------------------------------------------------------------------------
\* Specifications

NoUpHist ==
  [ids |-> {}, paths |-> {}, uploaded |-> {}, rejected |-> {}, failed |-> {},
   inserted |-> {}, triggered |-> {}]

InitRows(t) == [i \in VideoIds |-> IF i \in ExistingIds THEN Row(PublicUrl(i), t) ELSE NoRow]

ComponentsAtRest ==
  /\ media = IdleMedia
  /\ naias = UnmountedFeed
  /\ frame = IdleFrame
  /\ comp = IdleComp
  /\ carousel = ClosedCarousel

Init ==
  /\ \E t \in Texts \cup {Null} :
       /\ rows = InitRows(t)
       /\ triggers \in IF t = Null
                       THEN {{}, {[videoId |-> "v0", videoUrl |-> PublicUrl("v0")]}}
                       ELSE {{}}
  /\ apiKey \in BOOLEAN
  /\ job = IdleJob
  /\ hist = NoHist
  /\ external = 0
  /\ feed = {}
  /\ delivered = [n \in Notifs |-> 0]
  /\ videos = <<>>
  /\ selectedVideo = NoVideo
  /\ ui = [isProcessing |-> FALSE, showUploadModal |-> FALSE, pendingFile |-> NoFile,
           isLoading |-> TRUE, alert |-> "none"]
  /\ load = [pc |-> "fetching", result |-> <<>>]
  /\ up = IdleUp
  /\ uphist = NoUpHist
  /\ ComponentsAtRest

JobNext ==
  \/ \E o \in FetchOutcomes : FetchHead(o)
  \/ \E o \in FetchOutcomes : FetchGet(o)
  \/ \E b \in BOOLEAN : Sign(b)
  \/ CheckCredential
  \/ \E o \in SubmitOutcomes : Submit(o)
  \/ \E a \in Answers : PollStep(a)
  \/ PollTimeout
  \/ \E b \in BOOLEAN : Respond(b)
  \/ JobReturn
  \/ \E i \in VideoIds \cup {Null} : \E u \in RequestUrls(i) : ExternalRequest(i, u)

Next ==
  \/ \E b \in BOOLEAN : FetchVideos(b)
  \/ InstallLoad
  \/ \E k \in 1..Cardinality(VideoIds) : SelectVideo(k)
  \/ \E n \in Notifs : Deliver(n)
  \/ \E f \in Files : FileSelect(f)
  \/ \E fs \in Selections : FilesChosen(fs)
  \/ ModalClose
  \/ \E i \in FreshIds : ModalSubmit(i)
  \/ \E o \in {"ok", "error", "throws", "tooLarge"} : UploadDone(o)
  \/ \E s \in BOOLEAN, b \in BOOLEAN : InsertDone(s, b)
  \/ \E r \in triggers, reached \in BOOLEAN, t \in Texts \cup {Null}, b \in BOOLEAN :
       ProcessVideo(r, reached, t, b)
  \/ \E r \in triggers : TriggerLost(r)

Spec == Init /\ [][Next]_vars

\* the edge function step by step, under requests from any caller
SpecJob == Init /\ [][JobNext]_vars

\* the pipeline at rest, for the specifications of the other components
PipelineAtRest ==
  /\ rows = InitRows(Null)
  /\ triggers = {}
  /\ apiKey = TRUE
  /\ job = IdleJob
  /\ hist = NoHist
  /\ external = 0
  /\ feed = {}
  /\ delivered = [n \in Notifs |-> 0]
  /\ videos = <<>>
  /\ selectedVideo = NoVideo
  /\ ui = [isProcessing |-> FALSE, showUploadModal |-> FALSE, pendingFile |-> NoFile,
           isLoading |-> TRUE, alert |-> "none"]
  /\ load = [pc |-> "fetching", result |-> <<>>]
  /\ up = IdleUp
  /\ uphist = NoUpHist

\* every component before its first event, the pipeline at rest
InitAtRest == PipelineAtRest /\ ComponentsAtRest

\* one compression alone
SpecComp == InitAtRest /\ [][CompNext]_vars

\* one frame extraction alone
SpecFrame == InitAtRest /\ [][FrameNext]_vars

\* the carousel of the event media modal; a timer that is armed fires
SpecCarousel == InitAtRest /\ [][CarouselNext]_vars /\ WF_vars(ResetTimer)

\* one call of extractFrameFromVideo with its timer: an armed setTimeout fires
\* unless it is cleared
SpecFrameLive == InitAtRest /\ [][FrameNext]_vars /\ WF_vars(FrameTimeout)

\* the feed alone
SpecFeed == InitAtRest /\ [][FeedNext]_vars
SpecKeys == InitAtRest /\ [][KeysNext]_vars
SpecReload == InitAtRest /\ [][ReloadNext]_vars

\* the event media modals alone
SpecMedia == InitAtRest /\ [][MediaNext]_vars

----------------------------------------------------------------------------
\* Properties of the edge function (SpecJob)

JobEnded == job.pc \in {"respond", "done"}

\* C1: in the poll loop, when no answer so far was completed-with-text or error
\* (non-2xx answers included; a fetch that throws is no answer), the job never
\* issues a 61st status request, and when it leaves the loop it has issued
\* exactly 60 of them and its result is the timed-out one (null, PollTimeout).
C1_PollCap ==
  /\ hist.polls <= maxAttempts
  /\ (JobEnded /\ hist.polls > 0 /\ hist.nonTerminalOnly) =>
       /\ hist.polls = maxAttempts
       /\ job.log = "PollTimeout"
       /\ job.transcription = Null
       /\ hist.writes = 0

C1_Witness ==
  job.pc = "done" /\ job.log = "PollTimeout" /\ hist.polls = maxAttempts /\ hist.nonTerminalOnly

RowHas(videoId, text) ==
  videoId \in DOMAIN rows /\ rows[videoId].present /\ rows[videoId].transcription = text

\* C2 as stated: when the provider first answers completed with text T on the
\* k-th status request, the job issues no more than k status requests and, when
\* the job has ended, the row of the video has transcription T.
C2_AsStated ==
  hist.completedAt > 0 =>
    /\ hist.polls <= hist.completedAt
    /\ (job.pc = "done" /\ rows[job.videoId].present) => RowHas(job.videoId, hist.completedText)

\* C2 amended: ... no more than k status requests, and when the job has ended
\* with the row update accepted (answer 200) the row has transcription T; when
\* the update reports an error the job answers 500.
C2_Completed ==
  (hist.completedAt > 0 /\ job.pc # "idle") =>
    /\ hist.polls <= hist.completedAt
    /\ hist.polls = job.attempts
    /\ JobEnded => job.transcription = hist.completedText
    /\ (job.pc = "done" /\ rows[job.videoId].present /\ job.status = 200)
          => RowHas(job.videoId, hist.completedText)
    /\ job.pc = "done" => job.status \in {200, 500}
    /\ (job.pc = "done" /\ job.status = 500) => job.log = "UpdateFailed"

C2_Witness ==
  /\ job.pc = "done" /\ job.status = 200
  /\ hist.completedAt = 3 /\ hist.polls = 3
  /\ hist.completedText = "hello" /\ RowHas(job.videoId, "hello")

VerifyFailed ==
  /\ hist.verify # <<>>
  /\ job.pc \notin {"idle", "head", "get", "sign"}
  /\ \A k \in 1..Len(hist.verify) : hist.verify[k][2] = "notOk"

\* C3: the verify-accessibility step tries HEAD, then GET, then a signed URL for
\* the object's bucket and path; when none of them gives an accessible URL the
\* job ends Failed (AssetUnreachable) and no transcription request is submitted.
C3_Unreachable ==
  VerifyFailed =>
    /\ job.pc = "done"
    /\ job.log = "AssetUnreachable"
    /\ hist.submit = 0

\* C4: without the provider credential the job ends Failed at once: no submit
\* request, no status request, no write to the video row, no change event, and
\* transcribeVideo is left with null on its first statement.
C4_MissingCredential ==
  ~apiKey =>
    /\ hist.submit = 0
    /\ hist.polls = 0
    /\ hist.writes = 0
    /\ feed = {}
    /\ \E t \in Texts \cup {Null} : rows = InitRows(t)
    /\ job.pc \notin {"submit", "poll"}
    /\ job.pc = "respond" => (job.log = "MissingCredential" /\ job.transcription = Null)
    /\ job.pc = "done" =>
         job.log \in {"MissingCredential", "BadRequest", "HandlerException", "AssetUnreachable"}

C4_Witness ==
  ~apiKey /\ job.pc = "done" /\ job.log = "MissingCredential" /\ job.status = 200

----------------------------------------------------------------------------
\* Properties of the upload flow, the change feed and the in-memory list (Spec)

InFlight(id) == \E r \in triggers : r.videoId = id
HasT(list, n) == \E k \in 1..Len(list) : list[k].id = n.id /\ list[k].transcription = n.transcription

\* C5: in every run of the upload flow the storage upload has returned a URL
\* before a record with that URL is inserted, transcription is triggered only
\* after the insert has returned a persisted record (with the id and the URL of
\* that record), and a file whose upload or insert failed is never triggered.
C5_UploadOrder ==
  /\ up.pc = "inserting" => (up.storageUrl # NoUrl /\ up.storageUrl \in uphist.uploaded)
  /\ \A id \in uphist.inserted :
       rows[id].present /\ rows[id].url # NoUrl /\ rows[id].url \in uphist.uploaded
  /\ \A id \in uphist.triggered : id \in uphist.inserted
  /\ \A r \in triggers :
       r.videoId \in FreshIds =>
         /\ r.videoId \in uphist.inserted
         /\ r.videoId \in uphist.triggered
         /\ r.videoUrl = rows[r.videoId].url
  /\ \A id \in uphist.failed : id \notin uphist.triggered /\ ~InFlight(id)

C5_Witness ==
  \E id \in uphist.triggered : InFlight(id) /\ rows[id].present /\ rows[id].url = PublicUrl(id)

\* C6: a failure of the trigger never blocks or undoes the upload flow: the step
\* that ends a successful insert ends handleUpload too, without an alert and
\* without waiting for the answer, whether or not the request could be built,
\* with the record inserted and its entry at the head of the list and selected;
\* and a request that is lost or refused later changes neither the row nor the
\* client's state.
C6_FireAndForget ==
  /\ [][(up.pc = "inserting" /\ rows'[up.id].present) =>
          /\ up'.pc = "idle"
          /\ ~ui'.isProcessing
          /\ ui'.alert = ui.alert
          /\ videos' = <<Entry(up.id, up.storageUrl, Null)>> \o videos
          /\ selectedVideo' = Entry(up.id, up.storageUrl, Null)]_vars
  /\ [][(triggers' # triggers /\ triggers' \subseteq triggers /\ feed' = feed) =>
          /\ rows' = rows
          /\ UNCHANGED <<videos, selectedVideo, ui, up>>]_vars
  /\ [](\A id \in uphist.inserted : rows[id].present)

C6_Witness ==
  \E id \in uphist.triggered :
    /\ ~InFlight(id)
    /\ rows[id].present /\ rows[id].transcription = Null
    /\ InList(videos, id)
    /\ up.pc = "idle" /\ ~ui.isProcessing /\ ui.alert = "none"

\* C7: when the change feed delivers the update (id, T) of a row the job has
\* written, every in-memory entry with that id has transcription T after the
\* handler has run, and so has the selected video when it has that id; the other
\* entries, and the order of the list, are as before.
C7_Patched ==
  [][\A n \in Notifs :
       delivered'[n] > delivered[n] =>
         /\ n \in feed
         /\ Len(videos') = Len(videos)
         /\ \A k \in 1..Len(videos) :
              /\ videos'[k].id = videos[k].id
              /\ videos'[k].url = videos[k].url
              /\ videos'[k].transcription =
                   IF videos[k].id = n.id THEN n.transcription ELSE videos[k].transcription
         /\ selectedVideo'.id = selectedVideo.id
         /\ selectedVideo'.transcription =
              IF selectedVideo.id = n.id THEN n.transcription ELSE selectedVideo.transcription]_vars

C7_Witness ==
  \E n \in Notifs :
    /\ delivered[n] >= 1
    /\ rows[n.id].transcription = n.transcription
    /\ HasT(videos, n)
    /\ selectedVideo.id = n.id /\ selectedVideo.transcription = n.transcription

\* C8: applying the same change notification twice leaves the in-memory list and
\* the selected video exactly as they are after applying it once.
C8_Idempotent ==
  \A n \in Notifs :
    /\ PatchList(PatchList(videos, n), n) = PatchList(videos, n)
    /\ PatchSelected(PatchSelected(selectedVideo, n), n) = PatchSelected(selectedVideo, n)

C8_Witness ==
  \E n \in Notifs :
    /\ delivered[n] = 2
    /\ HasT(videos, n)
    /\ selectedVideo.id = n.id /\ selectedVideo.transcription = n.transcription

\* C9: every video record, persisted or in memory, with a non-null transcript
\* has a non-null source URL.
C9_TranscriptHasUrl ==
  /\ \A id \in VideoIds :
       (rows[id].present /\ rows[id].transcription # Null) => rows[id].url # NoUrl
  /\ \A k \in 1..Len(videos) : videos[k].transcription # Null => videos[k].url # NoUrl
  /\ \A k \in 1..Len(load.result) :
       load.result[k].transcription # Null => load.result[k].url # NoUrl
  /\ selectedVideo.transcription # Null => selectedVideo.url # NoUrl

C9_Witness ==
  \E id \in FreshIds :
    /\ rows[id].present /\ rows[id].transcription # Null /\ rows[id].url # NoUrl
    /\ \E k \in 1..Len(videos) :
         videos[k].id = id /\ videos[k].transcription # Null /\ videos[k].url # NoUrl

\* C10: when the storage upload is rejected because the payload exceeds the
\* backend size limit, the flow ends in error in that step (an alert is shown),
\* isProcessing and pendingFile are cleared, and for that item no record is
\* ever created, no transcription is triggered and no list entry is added.
C10_Rejected ==
  /\ [](\A id \in uphist.rejected :
          /\ ~rows[id].present
          /\ id \notin uphist.inserted
          /\ id \notin uphist.triggered
          /\ ~InFlight(id)
          /\ ~InList(videos, id))
  /\ [][(up.pc = "uploading" /\ up.id \in uphist'.rejected) =>
          /\ up'.pc = "idle"
          /\ ~ui'.isProcessing
          /\ ui'.pendingFile = NoFile
          /\ ui'.alert # "none"
          /\ UNCHANGED <<rows, triggers, videos, selectedVideo>>]_vars

C10_Witness ==
  \E id \in uphist.rejected :
    up.pc = "idle" /\ ~ui.isProcessing /\ ui.pendingFile = NoFile /\ ui.alert = "size"

\* C11: a size-limit rejection is surfaced distinctly from a generic network or
\* storage failure: the step that ends a failed upload shows the size-limit
\* alert when and only when the upload failed because the payload exceeds the
\* backend size limit.
C11_SizeAlertDistinct ==
  [][(up.pc = "uploading" /\ up'.pc = "idle") =>
       (ui'.alert = "size" <=> up.id \in uphist'.rejected)]_vars

\* C12: for a payload of size S the uploader uses the single-shot transfer when
\* S <= 6 MiB and the chunked resumable transfer when S > 6 MiB.
C12_TransferBySize ==
  \A p \in uphist.paths :
    p.transfer = IF p.size <= 6 * MiB THEN "singleShot" ELSE "resumable"

----------------------------------------------------------------------------
\* Properties of the event media upload loops (SpecMedia)

MediaInFlight == media.pc \in {"uploading", "inserting"}

\* C13: in the event media upload loops the progress entry keyed by (item index,
\* file name) exists only while that file's upload is in flight: the only entry
\* there can be is the one of the file in flight, the step in which the upload
\* settles (success or failure) removes it, and no entry is left once the loop
\* has ended.
C13_ProgressScoped ==
  /\ [](media.uploadProgress \subseteq (IF MediaInFlight THEN {CurrentKey(media)} ELSE {}))
  /\ [][(MediaInFlight /\ (media'.i # media.i \/ ~MediaInFlight'))
          => CurrentKey(media) \notin media'.uploadProgress]_vars

C13_Witness ==
  /\ media.pc = "uploading" /\ media.i = 1
  /\ media.uploadProgress = {ProgressKey(1, "b.jpg")}
  /\ media.batch = <<"a.mp4", "b.jpg">>

\* C14: with connection quality fast and 10 items, once the mount has settled
\* (animation frame run, observer reports delivered) and before any user input,
\* exactly items 0, 1, 2 and 3 have an attached source and item 4 has none.
MountSettled ==
  /\ naias.mounted /\ ~naias.rafPending /\ Settled(naias)
  /\ naias.inputs = 0 /\ naias.timers = 0

C14_MountAttached ==
  (MountSettled /\ naias.connectionQuality = "fast") => Attached(naias) = 0..3

\* C15: a source once attached is never detached or changed by a later scroll,
\* visibility, keyboard, click or error event; the attached set only grows.
C15_AttachMonotonic ==
  [][\A i \in Attached(naias) : naias'.src[i] = naias.src[i]]_vars

C15_Witness ==
  /\ naias.inputs > 0 /\ naias.scrollTop >= 4
  /\ 0 \in Attached(naias) /\ 0 \notin naias.ready /\ 0 \notin naias.canplayListeners
  /\ naias.observed[0] = Report(0, naias.scrollTop, naias.edge)

ActiveItems(f) == {i \in Items : Visible(i, f.scrollTop) > 2}

\* C16: whenever the observer has reported the current positions, only the
\* active item (more than half of it in view) plays: every playing video is
\* the active one, so two videos never play at once.
C16_OnlyActivePlays ==
  Settled(naias) => naias.playing \subseteq ActiveItems(naias)

\* C17: on every path that ends a call of extractFrameFromVideo (a frame, a
\* decode error, no canvas context, an exception while drawing, the timeout)
\* the video element has been removed and the object URL revoked.
C17_Released ==
  frame.pc = "settled" => (frame.element = "removed" /\ frame.url = "revoked")

C17_Witness ==
  /\ frame.pc = "settled" /\ frame.result = "timeout" /\ frame.phase = "seeking"
  /\ frame.element = "removed" /\ frame.url = "revoked"

\* C18: whatever the duration of the source and the target size, the bitrate
\* the recorder is configured with is at most the maximum bitrate, 1 Mbps.
C18_BitrateCapped ==
  comp.pc = "recording" => comp.videoBitsPerSecond <= maxBitrate

C18_Witness ==
  /\ comp.pc = "recording" /\ comp.maxSizeMB = 45 /\ comp.duration = Finite(800)
  /\ comp.videoBitsPerSecond = maxBitrate

\* C19: in the poll step an answer with status completed or error is terminal:
\* after it the loop issues no further status request.
C19_TerminalStatuses ==
  [][\A a \in Answers :
       (a.kind = "json" /\ a.status \in {"completed", "error"} /\ PollStep(a))
         => ~(job'.pc = "poll" /\ LoopGuard(job'.attempts))]_vars

\* the ends of a job whose transcribeVideo returned null: Failed and TimedOut
FailedLogs ==
  {"ProviderError", "SubmitFailed", "NoTranscriptId", "TranscriptionException",
   "MissingCredential"}
TimedOutLogs == {"PollTimeout"}
EndedWithoutTranscript == job.pc = "done" /\ job.log \in FailedLogs \cup TimedOutLogs

\* C20: a job that ends Failed or TimedOut has issued no row update, and neither
\* its last step nor any step before it changes the rows, the change feed, the
\* client's list or the selected video.
C20_FailureSilent ==
  /\ [](EndedWithoutTranscript => hist.writes = 0)
  /\ [][((job.pc # "respond" \/ job'.log \in FailedLogs \cup TimedOutLogs)
          /\ job.pc \notin {"idle", "done"})
         => UNCHANGED <<rows, feed, videos, selectedVideo>>]_vars

C20_Witness ==
  /\ job.pc = "done" /\ job.log = "PollTimeout" /\ hist.polls = maxAttempts
  /\ job.videoId = "v0" /\ rows["v0"].transcription = "hello" /\ feed = {}

\* C21: a canplay callback of a video that the observer has reported as not
\* intersecting never starts its playback, whatever the video has buffered.
C21_NoLatePlay ==
  [][\A i \in Items :
       (/\ CanPlay(i)
        /\ naias.observed[i] = Report(i, naias.scrollTop, naias.edge)
        /\ ~naias.observed[i].isIntersecting)
       => i \notin naias'.playing]_vars

\* no handler, timer or queued event of the first item is still to run, it has
\* buffered without an error, and the user has done nothing
FirstItemAtRest ==
  /\ naias.mounted /\ ~naias.rafPending /\ Settled(naias) /\ naias.inputs = 0
  /\ naias.failed = {} /\ naias.reloadTimers = {}
  /\ 0 \in naias.ready /\ 0 \notin naias.queued

\* C22: an item that became active and stays active plays once it has buffered:
\* when the browser allows playback and the first item, active since the mount,
\* has buffered and all its handlers have run, it is playing.
C22_ActivePlays ==
  (FirstItemAtRest /\ naias.autoplay) => 0 \in naias.playing

\* C23: while a smooth scroll started by an arrow key is in flight and the 500 ms
\* delay of the latest key press has not elapsed, the programmatic-scroll flag
\* stays set and nothing but a key press changes the active index, also when
\* a second key press came before the first one's delay had elapsed.
C23_FlagHeld ==
  [][(naias.smooth # NoSmooth /\ naias'.timers > 0 /\ naias'.inputs = naias.inputs)
       => (naias'.isScrolling /\ naias'.currentIndex = naias.currentIndex)]_vars

\* C24: an arrow key press leaves the same set of items with an attached source
\* as a scroll to the index the key press moves to.
C24_SamePrefetch ==
  [][\A key \in {"ArrowDown", "ArrowUp"} :
       KeyDown(key) =>
         Attached(naias') = Attached(preloadAround(naias, naias'.currentIndex))]_vars

\* C25: a video that was reloaded once and has failed again is not loaded a
\* second time: it stays in its error state.
C25_ReloadedOnce ==
  [][\A i \in Items :
       (i \in naias.reloaded /\ i \in naias.failed) => i \in naias'.failed]_vars

\* C26: whatever index the scroll handler finds closest, of the items after it
\* that it attaches the next one gets preload 'auto' and every later one
\* preload 'metadata', on every connection quality.
C26_NextFullRestMetadata ==
  naias.mounted =>
    \A c \in Items :
      LET after == preloadAround(naias, c)
      IN \A i \in Items :
           (i > c /\ naias.src[i] = "none" /\ after.src[i] # "none")
             => after.src[i] = (IF i = c + 1 THEN "auto" ELSE "metadata")

C28_FetchAndNotify ==
  \A n \in feed :
    (/\ load.pc = "done"
     /\ delivered[n] >= 1
     /\ {m \in feed : m.id = n.id} = {n}
     /\ InList(videos, n.id))
    => \A k \in 1..Len(videos) :
         videos[k].id = n.id => videos[k].transcription = rows[n.id].transcription

\* C29: when several files are chosen in one selection or drop, every one of
\* them is held by the upload flow once the button's handler has run: none has
\* been replaced by a later file of the same selection.
C29_EveryFileHeld ==
  [][\A fs \in Selections :
       FilesChosen(fs) =>
         \A k \in 1..Len(fs) : fs[k] \in {ui'.pendingFile, up'.file}]_vars

\* C30: every navigation by the previous button, the next button or a dot
\* starts a scroll of the carousel to the chosen item (or finds it there), and
\* whenever the programmatic-scroll flag is set it is false again later.
C30_NavigationScrolls ==
  /\ [][\A index \in 0..MaxCarousel - 1 :
          scrollToMedia(index) =>
            (carousel'.smooth = index
               \/ (carousel'.smooth = NoSmooth /\ carousel'.position = index))]_vars
  /\ (carousel.isScrollingRef ~> ~carousel.isScrollingRef)

====
